---- MODULE Spec2Model ----
(***************************************************************************)
(* A model of scr/Frame.py: the Frame class that segments a scanned page   *)
(* into horizontal text blocks.                                            *)
(*                                                                         *)
(*   Spec        Frame.expand_rects                  (lines 152-188)       *)
(*   SpecKernel  the Gaussian kernel sizes, __to_odd (lines 71-85,117-124) *)
(*   SpecZone    Frame.__get_effective_zone          (lines 75-102)        *)
(*   SpecMask    Frame.__generate_frame              (lines 104-144)       *)
(*                                                                         *)
(* Python arrays are modelled as functions over 0..n-1, so every index of  *)
(* the model is the index of the source.  The results of OpenCV and        *)
(* scikit-learn (contours, bounding rectangles, k-means labels and         *)
(* centres) are inputs drawn from bounded sets.  The Rect module (Rect,    *)
(* Rects, Contours) is not part of the sources at hand: a Rect is the      *)
(* bounding box of its contour, with the operations its callers use.       *)
(***************************************************************************)
EXTENDS Integers, Sequences, FiniteSets, TLC

VARIABLES
    pc,                   \* position in the method under way
    height, width,        \* Frame.height, Frame.width
    contours,             \* Rects.get_contours(): contour k is 4 points
    rects,                \* the Rects container (self[k]), mutated in place
    rects0,               \* the rectangles as they were when expand_rects began
    i,                    \* loop index of expand_rects
    dist,                 \* local dist of expand_rects
    plus_for_lower_rect,  \* local plus_for_lower_rect of expand_rects
    plus_for_upper_rect,  \* local plus_for_upper_rect of expand_rects
    calls,                \* the expand_above / expand_below calls made so far
    kernels,              \* the kernel sizes handed to cv2.GaussianBlur
    regions,              \* cv2.boundingRect of each contour of the zone detector
    zone,                 \* (left_end, right_end, upper_end, lower_end)
    labels,               \* k-means label of each row
    label_for_absence,    \* index of the brightest centre
    frame                 \* the mask under construction

vars == <<pc, height, width, contours, rects, rects0, i, dist,
          plus_for_lower_rect, plus_for_upper_rect, calls, kernels, regions,
          zone, labels, label_for_absence, frame>>

expandVars == <<contours, rects, rects0, i, dist, plus_for_lower_rect,
                plus_for_upper_rect, calls>>
frameVars == <<kernels, regions, zone, labels, label_for_absence, frame>>

----------------------------------------------------------------------------
(* Bounds of the model *)

MaxHeight == 6      \* frame height of the enumerated rectangle sets
MaxWidth == 1       \* frame width of the enumerated rectangle sets
MaxRects == 3       \* largest number of rectangles in a set
MaxTallRect == 7    \* largest height of a rectangle of the two-rectangle pages
MaxDim == 210       \* largest frame side of the kernel computations
MaxZoneWidth == 3   \* largest frame width of the zone detector's inputs
MaxZoneHeight == 2  \* largest frame height of the zone detector's inputs
MaxRegions == 2     \* largest number of regions the zone detector visits
MaxMaskWidth == 3   \* largest frame width of the mask generator's inputs
MaxMaskHeight == 3  \* largest frame height of the mask generator's inputs
MaxCenter == 1      \* largest brightness of a k-means centre

----------------------------------------------------------------------------
(* Constants of the program *)

BlurRateTenths == 15     \* __blur_rate = 1.5, in tenths
OffsetRateTenths == 30   \* __offset_rate = 3.0, in tenths
NClusters == 3           \* generate_row_label_Kmeans(avg_color_per_row, 3)
White == 255             \* frame += 255
MidThreshold == 127      \* cv2.threshold(frame, 127, 255, cv2.THRESH_BINARY)

----------------------------------------------------------------------------
(* Helpers *)

Min(S) == CHOOSE m \in S : \A n \in S : m <= n
Max(S) == CHOOSE m \in S : \A n \in S : n <= m

\* len() of an array
Length(a) == Cardinality(DOMAIN a)

\* The quotient n/d, d > 0, truncated toward zero
ExactTrunc(n, d) == IF n >= 0 THEN n \div d ELSE -((-n) \div d)

Abs(x) == IF x < 0 THEN -x ELSE x

RECURSIVE Gcd(_, _)
Gcd(a, b) == IF b = 0 THEN a ELSE Gcd(b, a % b)

RECURSIVE Pow2(_)
Pow2(e) == IF e = 0 THEN 1 ELSE 2 * Pow2(e - 1)

\* 2^e modulo q
RECURSIVE Pow2Mod(_, _)
Pow2Mod(e, q) == IF e = 0 THEN 1 % q ELSE (2 * Pow2Mod(e - 1, q)) % q

\* The exponent of the leading bit of k >= 1
RECURSIVE FloorLog2(_)
FloorLog2(k) == IF k < 2 THEN 0 ELSE 1 + FloorLog2(k \div 2)

\* The least c >= 1 with p/q >= 2^-c, counted up from c
RECURSIVE BinadeFrom(_, _, _)
BinadeFrom(p, q, c) == IF Pow2(c) * p >= q THEN c ELSE BinadeFrom(p, q, c + 1)

\* Bits of a double's significand
MantissaBits == 52

\* (n / d * g).astype(int) in IEEE doubles, for 0 < n < d: the quotient n/d is
\* rounded to the nearest double, the product with g is rounded again, and
\* the cast truncates toward zero.  When d does not divide n * |g| the exact
\* product lies at least 1/d from an integer and the rounding cannot carry it
\* across.  When it does, the exact product is an integer K and the double
\* product is below K exactly when the quotient was rounded down (rho, the
\* remainder of p * 2^s by q, is below q/2) by more than half the distance
\* from K to the double before it; the cast then gives K - 1 (heights 7 and
\* 6, distance 85: 49/85 * 85 = 48.99999999999999, cast to 48).
DoubleTrunc(n, d, g) ==
    LET a == Abs(g)
        sign == IF g < 0 THEN -1 ELSE 1
        K == (n * a) \div d
        p == n \div Gcd(n, d)
        q == d \div Gcd(n, d)
        c == BinadeFrom(p, q, 1)
        rho == (p * Pow2Mod(MantissaBits + c, q)) % q
        e == FloorLog2(K)
        below == /\ rho > 0
                 /\ 2 * rho < q
                 /\ rho * a * (IF K = Pow2(e) THEN 2 ELSE 1) > q * Pow2(e + c - 1)
    IN IF a = 0 \/ (n * a) % d # 0
       THEN sign * K
       ELSE sign * (IF below THEN K - 1 ELSE K)

\* numpy indexing a[j]: j in -size..size-1, negative indices count from the end
NpIndexOK(a, j) == -Length(a) <= j /\ j < Length(a)
NpAt(a, j) == IF j >= 0 THEN a[j] ELSE a[Length(a) + j]

----------------------------------------------------------------------------
(* Rect, Rects, Contours *)

\* A contour as cv2.findContours gives it for a rectangular region:
\* top-left, bottom-left, bottom-right, top-right.
Contour(l, t, r, b) ==
    [k \in 0..3 |-> CASE k = 0 -> [x |-> l, y |-> t]
                      [] k = 1 -> [x |-> l, y |-> b]
                      [] k = 2 -> [x |-> r, y |-> b]
                      [] OTHER -> [x |-> r, y |-> t]]

\* Rect: the bounding box of a contour
RectOf(c) ==
    [top    |-> Min({c[k].y : k \in DOMAIN c}),
     bottom |-> Max({c[k].y : k \in DOMAIN c}),
     left   |-> Min({c[k].x : k \in DOMAIN c}),
     right  |-> Max({c[k].x : k \in DOMAIN c})]

\* Rect.height
Height(r) == r.bottom - r.top

\* Rect.expand_above(d): the top edge moves up by d
expand_above(r, d) == [r EXCEPT !.top = @ - d]

\* Rect.expand_below(d): the bottom edge moves down by d
expand_below(r, d) == [r EXCEPT !.bottom = @ + d]

\* Rects.sorted(): ordered by top edge
Sorted(cs) ==
    \A k \in DOMAIN cs : (k + 1) \in DOMAIN cs => cs[k][0].y <= cs[k + 1][0].y

----------------------------------------------------------------------------
(* Frame.expand_rects *)

\* contours_height = np.array([r.height for r in self])
contours_height(rs) == [k \in DOMAIN rs |-> Height(rs[k])]

\* height_sq = contours_height**2
height_sq(rs) == [k \in DOMAIN rs |-> contours_height(rs)[k] * contours_height(rs)[k]]

\* denom = np.roll(height_sq, -1) + height_sq
denom(rs) ==
    [k \in DOMAIN rs |-> height_sq(rs)[(k + 1) % Length(rs)] + height_sq(rs)[k]]

\* The ratio with the squares of the two heights exchanged
RatioForLowerSwapped(rs) ==
    [k \in 0..(Length(rs) - 2) |->
        [num |-> height_sq(rs)[k + 1], den |-> denom(rs)[k]]]

\* ratio_for_lower = height_sq[:-1] / denom[:-1], kept as a fraction
RatioForLower(rs) ==
    [k \in 0..(Length(rs) - 2) |->
        [num |-> height_sq(rs)[k], den |-> denom(rs)[k]]]

\* The distance taken between the two top edges
DistFromTops(cs) ==
    [k \in 0..(Length(cs) - 2) |-> cs[k + 1][0].y - cs[k][0].y]

\* dist: (contours[k + 1][0] - contours[k][1]), flattened, every second entry:
\* the y component, top of contour k+1 minus bottom of contour k
Dist(cs) ==
    [k \in 0..(Length(cs) - 2) |-> cs[k + 1][0].y - cs[k][1].y]

\* plus_for_lower_rect = np.array(ratio_for_lower * dist).astype(Point_dtype)
PlusForLowerRect(ratio, d) ==
    [k \in DOMAIN d |-> DoubleTrunc(ratio[k].num, ratio[k].den, d[k])]

\* plus_for_upper_rect = (dist - plus_for_lower_rect).astype(Point_dtype)
PlusForUpperRect(d, pl) == [k \in DOMAIN d |-> d[k] - pl[k]]

\* Whether iteration k of the loop raises IndexError: line 186 reads
\* plus_for_upper_rect[k] and line 188 reads plus_for_lower_rect[k - 1]
\* (lines 181, 183 index within bounds whenever k < Len - 1).
BodyRaises(rs, k, pl, pu) ==
    \/ k = 0 /\ ~NpIndexOK(pu, k)
    \/ k = Length(rs) - 1 /\ ~NpIndexOK(pl, k - 1)

\* The loop body without the extra expansion of the first and last rectangle
ExpandBodyNoEdges(rs, k, pl, pu) ==
    IF k < Length(rs) - 1
    THEN [rs EXCEPT ![k] = expand_below(@, pu[k]),
                    ![k + 1] = expand_above(@, pl[k])]
    ELSE rs

\* The loop body giving the upper rectangle the lower rectangle's amount
ExpandBodyLowerTwice(rs, k, pl, pu) ==
    LET r1 == IF k < Length(rs) - 1
              THEN [rs EXCEPT ![k] = expand_below(@, pl[k]),
                              ![k + 1] = expand_above(@, pl[k])]
              ELSE rs
        r2 == IF k = 0
              THEN [r1 EXCEPT ![k] = expand_above(@, NpAt(pu, k))]
              ELSE r1
        r3 == IF k = Length(rs) - 1
              THEN [r2 EXCEPT ![k] = expand_below(@, NpAt(pl, k - 1))]
              ELSE r2
    IN r3

\* One iteration of the loop of lines 178-188 on the rectangles
ExpandBody(rs, k, pl, pu) ==
    LET r1 == IF k < Length(rs) - 1
              THEN [rs EXCEPT ![k] = expand_below(@, pu[k]),
                              ![k + 1] = expand_above(@, pl[k])]
              ELSE rs
        r2 == IF k = 0
              THEN [r1 EXCEPT ![k] = expand_above(@, NpAt(pu, k))]
              ELSE r1
        r3 == IF k = Length(rs) - 1
              THEN [r2 EXCEPT ![k] = expand_below(@, NpAt(pl, k - 1))]
              ELSE r2
    IN r3

\* The calls iteration k makes, in order: <<method, index of the rectangle, delta>>
BodyCalls(rs, k, pl, pu) ==
    (IF k < Length(rs) - 1
     THEN << <<"expand_below", k, pu[k]>>, <<"expand_above", k + 1, pl[k]>> >>
     ELSE << >>)
    \o (IF k = 0 THEN << <<"expand_above", k, NpAt(pu, k)>> >> ELSE << >>)
    \o (IF k = Length(rs) - 1
        THEN << <<"expand_below", k, NpAt(pl, k - 1)>> >>
        ELSE << >>)

\* Horizontal extent of the enumerated sets: the rows of the mask span the frame
Extents == {<<0, MaxWidth>>}

\* Vertical extents: a rectangle of height >= 1 inside the frame
Intervals == {<<t, b>> \in (0..MaxHeight) \X (0..MaxHeight) : t < b}

\* The contour sets of n rectangles, sorted by top edge (overlaps included)
ContourSets(n) ==
    {cs \in UNION {[0..(n - 1) -> {Contour(e[1], v[1], e[2], v[2]) : v \in Intervals}]
                   : e \in Extents} : Sorted(cs)}

\* The page of three bars of height 10 at rows 20, 50 and 80, 300 wide, 100 high
Scenario ==
    [height |-> 100, width |-> 300,
     contours |-> [k \in 0..2 |-> Contour(0, 20 + 30 * k, 300, 30 + 30 * k)]]

\* Two rectangles on a page as tall and wide as the page of three bars, the
\* first at the top, with every gap that keeps the second inside the page
TallPairs ==
    {[k \in 0..1 |->
        IF k = 0 THEN Contour(0, 0, Scenario.width, q[1])
        ELSE Contour(0, q[1] + q[3], Scenario.width, q[1] + q[3] + q[2])] :
     q \in {t \in (1..MaxTallRect) \X (1..MaxTallRect) \X (0..Scenario.height) :
               t[1] + t[2] + t[3] <= Scenario.height}}

FrameIdle ==
    /\ kernels = << >>
    /\ regions = << >>
    /\ zone = << >>
    /\ labels = << >>
    /\ label_for_absence = -1
    /\ frame = << >>

ExpandIdle ==
    /\ contours = << >>
    /\ rects = << >>
    /\ rects0 = << >>
    /\ i = 0
    /\ dist = << >>
    /\ plus_for_lower_rect = << >>
    /\ plus_for_upper_rect = << >>
    /\ calls = << >>

\* A Frame after construction: its rectangles found and sorted
Init ==
    /\ pc = "expand_start"
    /\ \/ /\ height = MaxHeight
          /\ width = MaxWidth
          /\ \E n \in 0..MaxRects : contours \in ContourSets(n)
       \/ /\ height = Scenario.height
          /\ width = Scenario.width
          /\ contours \in {Scenario.contours} \cup TallPairs
    /\ rects = [k \in DOMAIN contours |-> RectOf(contours[k])]
    /\ rects0 = rects
    /\ i = 0
    /\ dist = << >>
    /\ plus_for_lower_rect = << >>
    /\ plus_for_upper_rect = << >>
    /\ calls = << >>
    /\ FrameIdle

\* Lines 159-177: the amounts of expansion
ExpandPrepare ==
    /\ pc = "expand_start"
    /\ dist' = Dist(contours)
    /\ plus_for_lower_rect' = PlusForLowerRect(RatioForLower(rects), dist')
    /\ plus_for_upper_rect' = PlusForUpperRect(dist', plus_for_lower_rect')
    /\ i' = 0
    /\ pc' = "expand_loop"
    /\ UNCHANGED <<height, width, contours, rects, rects0, calls>>
    /\ UNCHANGED frameVars

\* Lines 178-188: one iteration of the loop
ExpandIterate ==
    /\ pc = "expand_loop"
    /\ i < Length(rects)
    /\ ~BodyRaises(rects, i, plus_for_lower_rect, plus_for_upper_rect)
    /\ rects' = ExpandBody(rects, i, plus_for_lower_rect, plus_for_upper_rect)
    /\ calls' = calls \o BodyCalls(rects, i, plus_for_lower_rect, plus_for_upper_rect)
    /\ i' = i + 1
    /\ UNCHANGED <<pc, height, width, contours, rects0, dist,
                   plus_for_lower_rect, plus_for_upper_rect>>
    /\ UNCHANGED frameVars

\* Lines 185-188: an index out of bounds ends the method with IndexError
ExpandRaise ==
    /\ pc = "expand_loop"
    /\ i < Length(rects)
    /\ BodyRaises(rects, i, plus_for_lower_rect, plus_for_upper_rect)
    /\ pc' = "expand_IndexError"
    /\ UNCHANGED <<height, width>>
    /\ UNCHANGED expandVars
    /\ UNCHANGED frameVars

\* The loop is exhausted: expand_rects returns
ExpandReturn ==
    /\ pc = "expand_loop"
    /\ i = Length(rects)
    /\ pc' = "expand_done"
    /\ UNCHANGED <<height, width>>
    /\ UNCHANGED expandVars
    /\ UNCHANGED frameVars

Next == ExpandPrepare \/ ExpandIterate \/ ExpandRaise \/ ExpandReturn

Spec == Init /\ [][Next]_vars

----------------------------------------------------------------------------
(* Frame.__to_odd and the Gaussian kernel sizes *)

\* __to_odd(x): y = ceil(x); y if y % 2 == 1 else y - 1.  Every argument the
\* class passes is integral (a float floor division, the int 1, or a result
\* of __to_odd), so ceil(x) is x.
to_odd(x) == LET y == x IN IF y % 2 = 1 THEN y ELSE y - 1

\* rate * n // 100 for a rate given in tenths: a floor division
RateOf(rateTenths, n) == (rateTenths * n) \div 1000

\* Lines 81-85: the kernel of __get_effective_zone
ZoneKernel(w, h) ==
    LET gauss_x == to_odd(Max({RateOf(OffsetRateTenths, w), 1}))
        gauss_y == to_odd(Max({RateOf(OffsetRateTenths, h), 1}))
    IN <<to_odd(gauss_x), to_odd(gauss_y)>>

\* Lines 117-124: the kernel of __generate_frame
FrameKernel(w, h) ==
    <<to_odd(RateOf(BlurRateTenths, w)), to_odd(RateOf(BlurRateTenths, h))>>

InitKernel ==
    /\ pc = "kernel_start"
    /\ height \in 1..MaxDim
    /\ width \in 1..MaxDim
    /\ ExpandIdle
    /\ FrameIdle

\* __generate_frame blurs first (lines 117-124)
KernelOfFrame ==
    /\ pc = "kernel_start"
    /\ kernels' = Append(kernels, FrameKernel(width, height))
    /\ pc' = "kernel_frame"
    /\ UNCHANGED <<height, width, regions, zone, labels, label_for_absence, frame>>
    /\ UNCHANGED expandVars

\* and then calls __get_effective_zone (line 138), which blurs too (lines 81-85)
KernelOfZone ==
    /\ pc = "kernel_frame"
    /\ kernels' = Append(kernels, ZoneKernel(width, height))
    /\ pc' = "kernel_done"
    /\ UNCHANGED <<height, width, regions, zone, labels, label_for_absence, frame>>
    /\ UNCHANGED expandVars

NextKernel == KernelOfFrame \/ KernelOfZone

SpecKernel == InitKernel /\ [][NextKernel]_vars

----------------------------------------------------------------------------
(* Frame.__get_effective_zone *)

\* The bounding rectangles cv2.boundingRect can return inside a w x h image
BoundingRects(w, h) ==
    {[x |-> x, y |-> y, w |-> cw, h |-> ch] :
        <<x, y, cw, ch>> \in
            {q \in (0..(w - 1)) \X (0..(h - 1)) \X (1..w) \X (1..h) :
                q[1] + q[3] <= w /\ q[2] + q[4] <= h}}

\* The sequences of at most n regions of a w x h image, in every order
RegionSeqs(w, h, n) ==
    UNION {[0..(m - 1) -> BoundingRects(w, h)] : m \in 0..n}

\* The loop body with the region's width left out of the right end
ZoneStepNoWidth(s, c) ==
    [left_end  |-> Min({s.left_end, c.x}),
     right_end |-> Max({s.right_end, c.x}),
     upper_end |-> Min({s.upper_end, c.y}),
     lower_end |-> Max({s.lower_end, c.y + c.h}),
     w |-> c.w, h |-> c.h]

\* Lines 97-101: the loop body; x, y, w, h = cv2.boundingRect(contour)
\* rebinds the locals w and h
ZoneStep(s, c) ==
    [left_end  |-> Min({s.left_end, c.x}),
     right_end |-> Max({s.right_end, c.x + c.w}),
     upper_end |-> Min({s.upper_end, c.y}),
     lower_end |-> Max({s.lower_end, c.y + c.h}),
     w |-> c.w, h |-> c.h]

\* Lines 96-101: for contour in contours, from index k on
RECURSIVE ZoneLoop(_, _, _)
ZoneLoop(s, cs, k) ==
    IF k >= Length(cs) THEN s ELSE ZoneLoop(ZoneStep(s, cs[k]), cs, k + 1)

\* Lines 78-79, 92-102: the zone of the regions cs of a w x h frame
GetEffectiveZone(w, h, cs) ==
    LET s == ZoneLoop([left_end |-> w, right_end |-> 0,
                       upper_end |-> h, lower_end |-> 0, w |-> w, h |-> h], cs, 0)
    IN <<s.left_end, s.right_end, s.upper_end, s.lower_end>>

InitZone ==
    /\ pc = "zone_start"
    /\ width \in 1..MaxZoneWidth
    /\ height \in 1..MaxZoneHeight
    /\ kernels = << >>
    /\ regions = << >>
    /\ zone = << >>
    /\ labels = << >>
    /\ label_for_absence = -1
    /\ frame = << >>
    /\ ExpandIdle

\* Lines 78-90: blur, threshold, invert, find the external contours
ZoneFindContours ==
    /\ pc = "zone_start"
    /\ kernels' = Append(kernels, ZoneKernel(width, height))
    /\ regions' \in RegionSeqs(width, height, MaxRegions)
    /\ pc' = "zone_loop"
    /\ UNCHANGED <<height, width, zone, labels, label_for_absence, frame>>
    /\ UNCHANGED expandVars

\* Lines 92-102: the union of the bounding rectangles
ZoneReturn ==
    /\ pc = "zone_loop"
    /\ zone' = GetEffectiveZone(width, height, regions)
    /\ pc' = "zone_done"
    /\ UNCHANGED <<height, width, kernels, regions, labels, label_for_absence, frame>>
    /\ UNCHANGED expandVars

NextZone == ZoneFindContours \/ ZoneReturn

SpecZone == InitZone /\ [][NextZone]_vars

----------------------------------------------------------------------------
(* Frame.__generate_frame *)

\* np.argmax(centers): the first index of the largest centre
ArgMax(centers) ==
    Min({k \in DOMAIN centers : \A j \in DOMAIN centers : centers[j] <= centers[k]})

\* Lines 132-135: a white frame, the rows of the other clusters set to 0
RowsFrame(w, h, lab, absence) ==
    LET white == [y \in 0..(h - 1) |-> [x \in 0..(w - 1) |-> White]]
    IN IF \E y \in 0..(h - 1) : lab[y] # absence
       THEN [y \in 0..(h - 1) |->
                IF lab[y] # absence THEN [x \in 0..(w - 1) |-> 0] ELSE white[y]]
       ELSE white

\* The columns of the slice a:b of an axis of length n (0 <= a, 0 <= b)
Slice(a, b, n) == {x \in 0..(n - 1) : a <= x /\ x < b}

\* The fill with the right margin starting one column late
FillOutsideZoneLate(f, w, h, left_end, right_end) ==
    [y \in 0..(h - 1) |-> [x \in 0..(w - 1) |->
        IF x \in Slice(0, left_end, w) \/ x \in Slice(right_end + 1, w, w)
        THEN White ELSE f[y][x]]]

\* Lines 140-141: frame[0:h, 0:left_end] = 255; frame[0:h, right_end:w] = 255
FillOutsideZone(f, w, h, left_end, right_end) ==
    [y \in 0..(h - 1) |-> [x \in 0..(w - 1) |->
        IF x \in Slice(0, left_end, w) \/ x \in Slice(right_end, w, w)
        THEN White ELSE f[y][x]]]

\* Lines 142-144: bitwise_not, threshold at 127, BGR to gray (the three
\* channels of a pixel are equal throughout, so one value stands for them)
InvertAndThreshold(f, w, h) ==
    [y \in 0..(h - 1) |-> [x \in 0..(w - 1) |->
        IF White - f[y][x] > MidThreshold THEN White ELSE 0]]

InitMask ==
    /\ pc = "mask_start"
    /\ width \in 1..MaxMaskWidth
    /\ height \in NClusters..MaxMaskHeight   \* KMeans needs n_clusters samples
    /\ kernels = << >>
    /\ regions = << >>
    /\ zone = << >>
    /\ labels = << >>
    /\ label_for_absence = -1
    /\ frame = << >>
    /\ ExpandIdle

\* Lines 117-129: blur, average each row, cluster the rows, pick the brightest
MaskCluster ==
    /\ pc = "mask_start"
    /\ kernels' = Append(kernels, FrameKernel(width, height))
    /\ labels' \in [0..(height - 1) -> 0..(NClusters - 1)]
    /\ \E centers \in [0..(NClusters - 1) -> 0..MaxCenter] :
          label_for_absence' = ArgMax(centers)
    /\ pc' = "mask_rows"
    /\ UNCHANGED <<height, width, regions, zone, frame>>
    /\ UNCHANGED expandVars

\* Lines 132-135
MaskRows ==
    /\ pc = "mask_rows"
    /\ frame' = RowsFrame(width, height, labels, label_for_absence)
    /\ pc' = "mask_zone"
    /\ UNCHANGED <<height, width, kernels, regions, zone, labels, label_for_absence>>
    /\ UNCHANGED expandVars

\* Lines 138-141: the effective zone of the page, then the margins made white
MaskZone ==
    /\ pc = "mask_zone"
    /\ kernels' = Append(kernels, ZoneKernel(width, height))
    /\ regions' \in RegionSeqs(width, height, 1)
    /\ zone' = GetEffectiveZone(width, height, regions')
    /\ frame' = FillOutsideZone(frame, width, height, zone'[1], zone'[2])
    /\ pc' = "mask_invert"
    /\ UNCHANGED <<height, width, labels, label_for_absence>>
    /\ UNCHANGED expandVars

\* Lines 142-144
MaskReturn ==
    /\ pc = "mask_invert"
    /\ frame' = InvertAndThreshold(frame, width, height)
    /\ pc' = "mask_done"
    /\ UNCHANGED <<height, width, kernels, regions, zone, labels, label_for_absence>>
    /\ UNCHANGED expandVars

NextMask == MaskCluster \/ MaskRows \/ MaskZone \/ MaskReturn

SpecMask == InitMask /\ [][NextMask]_vars

----------------------------------------------------------------------------
(* Properties of Frame.expand_rects, checked under Spec *)

ExpandDone == pc = "expand_done"

\* The adjacent pairs (k, k+1) of the set
Pairs == {k \in DOMAIN rects0 : (k + 1) \in DOMAIN rects0}

\* Height of rectangle k before the expansion
H0(k) == rects0[k].bottom - rects0[k].top

\* The inter-contour gap of pair (k, k+1)
Gap(k) == RectOf(contours[k + 1]).top - RectOf(contours[k]).bottom

\* How far the top edge of rectangle k has moved up, its bottom edge down
Up(k) == rects0[k].top - rects[k].top
Down(k) == rects[k].bottom - rects0[k].bottom

\* The calls of one method made on rectangle k
CallsOn(method, k) ==
    {n \in DOMAIN calls : calls[n][1] = method /\ calls[n][2] = k}

NonOverlapping == \A k \in Pairs : Gap(k) >= 0

IsScenario ==
    /\ height = Scenario.height
    /\ width = Scenario.width
    /\ contours = Scenario.contours

\* C1, as stated: the lower rectangle k+1 moves up by
\* trunc(h_{k+1}^2 / (h_k^2 + h_{k+1}^2) * gap), the upper rectangle k moves
\* down by the rest of the gap, and the shorter of the two gets the larger share.
C1_AsStated ==
    ExpandDone =>
        \A k \in Pairs :
            /\ Up(k + 1) = ExactTrunc(H0(k + 1) * H0(k + 1) * Gap(k),
                                      H0(k) * H0(k) + H0(k + 1) * H0(k + 1))
            /\ Down(k) = Gap(k) - Up(k + 1)
            /\ (Gap(k) >= 0 /\ H0(k) < H0(k + 1)) => Down(k) >= Up(k + 1)
            /\ (Gap(k) >= 0 /\ H0(k + 1) < H0(k)) => Up(k + 1) >= Down(k)

\* C1, amended: the lower rectangle k+1 moves up by the double-precision
\* product h_k^2 / (h_k^2 + h_{k+1}^2) * gap cast to an integer, the square of
\* the UPPER height over the sum; for a gap >= 0 that is trunc(r * gap) or,
\* when r * gap is an integer the double product falls short of, one less.
\* The upper rectangle k moves down by the rest of the gap; so for a gap >= 0
\* a shorter upper rectangle gets at least the lower's share, and a shorter
\* lower rectangle gets at least the upper's share less one pixel.
C1_LowerShareIsUpperHeightSquared ==
    ExpandDone =>
        \A k \in Pairs :
            LET n == H0(k) * H0(k)
                d == H0(k) * H0(k) + H0(k + 1) * H0(k + 1)
            IN /\ Up(k + 1) = DoubleTrunc(n, d, Gap(k))
               /\ Gap(k) >= 0 =>
                     /\ Up(k + 1) <= ExactTrunc(n * Gap(k), d)
                     /\ Up(k + 1) >= ExactTrunc(n * Gap(k), d) - 1
                     /\ Up(k + 1) < ExactTrunc(n * Gap(k), d) => (n * Gap(k)) % d = 0
               /\ Down(k) = Gap(k) - Up(k + 1)
               /\ (Gap(k) >= 0 /\ H0(k) < H0(k + 1)) => Down(k) >= Up(k + 1)
               /\ (Gap(k) >= 0 /\ H0(k + 1) < H0(k)) => Up(k + 1) + 1 >= Down(k)

\* An expanded pair of heights 7 and 6 and gap 85: the shorter, lower
\* rectangle took 48, one less than 49/85 of the gap, and the upper 37
C1_Witness ==
    /\ ExpandDone
    /\ \E k \in Pairs :
          /\ H0(k) = 7 /\ H0(k + 1) = 6 /\ Gap(k) = 85
          /\ Up(k + 1) = 48
          /\ Down(k) = 37

\* C2: for every adjacent pair with a gap >= 0, the downward increment of the
\* upper rectangle plus the upward increment of the lower rectangle is the
\* inter-contour gap exactly.
C2_IncrementsSumToGap ==
    ExpandDone =>
        \A k \in Pairs : Gap(k) >= 0 => Down(k) + Up(k + 1) = Gap(k)

\* An expanded pair whose gap does not divide evenly: truncation took place
C2_Witness ==
    /\ ExpandDone
    /\ \E k \in Pairs :
          /\ Gap(k) > 0
          /\ (H0(k) * H0(k) * Gap(k)) % (H0(k) * H0(k) + H0(k + 1) * H0(k + 1)) # 0
          /\ Up(k + 1) > 0

\* C3: after one call on N >= 2 rectangles with gaps >= 0, the bottom edge of
\* every rectangle k equals the top edge of rectangle k+1, and each of these
\* two edges was moved by one call only.
C3_AdjacentRectsMeet ==
    (ExpandDone /\ Length(rects0) >= 2 /\ NonOverlapping) =>
        \A k \in Pairs :
            /\ rects[k].bottom = rects[k + 1].top
            /\ Cardinality(CallsOn("expand_below", k)) = 1
            /\ Cardinality(CallsOn("expand_above", k + 1)) = 1

\* Three rectangles separated by two positive gaps, expanded
C3_Witness ==
    /\ ExpandDone
    /\ Length(rects0) = 3
    /\ \A k \in Pairs : Gap(k) > 0 /\ Down(k) > 0 /\ Up(k + 1) > 0

\* C4: on a set of exactly one rectangle expand_rects returns without raising
\* and leaves the rectangle as it was.
C4_SingleRectReturns ==
    Length(rects0) = 1 =>
        /\ pc # "expand_IndexError"
        /\ ExpandDone => rects = rects0

\* C5: for a sorted, non-overlapping set inside the frame, every rectangle
\* ends with 0 <= top <= bottom <= height and 0 <= left <= right <= width.
C5_StaysInsideFrame ==
    (ExpandDone /\ NonOverlapping) =>
        \A k \in DOMAIN rects :
            /\ 0 <= rects[k].top
            /\ rects[k].top <= rects[k].bottom
            /\ rects[k].bottom <= height
            /\ 0 <= rects[k].left
            /\ rects[k].left <= rects[k].right
            /\ rects[k].right <= width

\* C6: a negative gap is clamped to 0: both increments of the pair are 0, no
\* expand_above / expand_below call is given a negative delta, and no
\* rectangle ends smaller than it was.
C6_NegativeGapClamped ==
    /\ \A n \in DOMAIN calls : calls[n][3] >= 0
    /\ \A k \in DOMAIN plus_for_lower_rect :
          Gap(k) < 0 => plus_for_lower_rect[k] = 0 /\ plus_for_upper_rect[k] = 0
    /\ ExpandDone =>
          \A k \in DOMAIN rects :
              rects[k].top <= rects0[k].top /\ rects[k].bottom >= rects0[k].bottom

\* C7, as stated: on the page of three bars the first rectangle ends with its
\* top at 0 and the last with its bottom at 100.
C7_AsStated ==
    (ExpandDone /\ IsScenario) => rects[0].top = 0 /\ rects[2].bottom = 100

\* C7, amended: on the page of three bars the first rectangle ends with its
\* top at 10 (20 less the 10 pixels its pair gives it) and the last with its
\* bottom at 100.
C7_ScenarioEdges ==
    (ExpandDone /\ IsScenario) => rects[0].top = 10 /\ rects[2].bottom = 100

\* The page of three bars, expanded
C7_Witness ==
    /\ ExpandDone
    /\ IsScenario
    /\ rects0[0].top = 20
    /\ rects[1].top = 40

----------------------------------------------------------------------------
(* Properties of the kernel sizes, checked under SpecKernel *)

\* C8: every kernel dimension computed for a frame of width >= 1 and
\* height >= 1 with the default rates is an odd integer >= 1.
C8_KernelsOddPositive ==
    \A n \in DOMAIN kernels :
        \A d \in 1..2 : kernels[n][d] % 2 = 1 /\ kernels[n][d] >= 1

----------------------------------------------------------------------------
(* Properties of Frame.__get_effective_zone, checked under SpecZone *)

\* C9: the zone is the union bounding box of the regions, whatever their
\* order: left = min x, right = max x+w, top = min y, bottom = max y+h, taken
\* together with the initial values width, 0, height, 0; with no region it is
\* (width, 0, height, 0).
C9_ZoneIsUnionBoundingBox ==
    pc = "zone_done" =>
        /\ zone = << Min({width} \cup {regions[k].x : k \in DOMAIN regions}),
                     Max({0} \cup {regions[k].x + regions[k].w : k \in DOMAIN regions}),
                     Min({height} \cup {regions[k].y : k \in DOMAIN regions}),
                     Max({0} \cup {regions[k].y + regions[k].h : k \in DOMAIN regions}) >>
        /\ Length(regions) = 0 => zone = <<width, 0, height, 0>>

\* Two regions visited with the one further right and further down first, the
\* second one narrower than the frame
C9_Witness ==
    /\ pc = "zone_done"
    /\ Length(regions) = 2
    /\ regions[0].x > regions[1].x
    /\ regions[0].y > regions[1].y
    /\ regions[0].x + regions[0].w > regions[1].x + regions[1].w
    /\ zone[1] = regions[1].x
    /\ zone[2] = regions[0].x + regions[0].w

----------------------------------------------------------------------------
(* Properties of Frame.__generate_frame, checked under SpecMask *)

\* C10: in the returned mask pixel (y, x) is 255 if row y is not of the
\* absence cluster and left_end <= x < right_end, and 0 otherwise; so the
\* degenerate zone (width, 0) leaves no white pixel, and the zone's top and
\* bottom restrict no row.
C10_MaskIsRowsWithinZone ==
    pc = "mask_done" =>
        \A y \in 0..(height - 1) : \A x \in 0..(width - 1) :
            frame[y][x] = (IF labels[y] # label_for_absence
                              /\ zone[1] <= x /\ x < zone[2]
                           THEN 255 ELSE 0)

\* A mask with a white pixel in a row outside the zone's top..bottom, and a
\* black pixel right of the zone in that row
C10_Witness ==
    /\ pc = "mask_done"
    /\ \E y \in 0..(height - 1) :
          /\ ~(zone[3] <= y /\ y < zone[4])
          /\ \E x \in 0..(width - 1) : frame[y][x] = 255
          /\ \E x \in 0..(width - 1) : x >= zone[2] /\ frame[y][x] = 0

====
